---- MODULE Spec2Model ----
(***************************************************************************)
(* ScrollResponder.Mixin (Libraries/Components/ScrollResponder.js) as a    *)
(* state machine.  Every handler of the mixin is one action that runs to   *)
(* completion; the clock read by performanceNow() is the variable now and  *)
(* advances only between handlers.  Host props callbacks (onTouchStart,    *)
(* onScroll, ...) are taken to be supplied and are recorded, in call       *)
(* order, in effects together with the calls made on the collaborators     *)
(* (TextInputState, UIManager, console).                                   *)
(*                                                                         *)
(* Optional JavaScript values are sequences: <<>> is undefined/null and    *)
(* <<v>> is the value v.                                                   *)
(***************************************************************************)
EXTENDS Integers, Sequences, FiniteSets, TLC

\* ------------------------------------------------------------------ bounds
\* Largest clock reading explored.
MaxClock == 26
\* Largest number of layout measurements in flight.
MaxPending == 2
\* Calls of componentWillUnmount followed on one component.
MaxUnmounts == 2

\* --------------------------------------------------------------- constants
IS_ANIMATING_TOUCH_START_THRESHOLD_MS == 16
\* Dimensions.get('window').height
WindowHeight == 600

\* Amounts by which the clock advances between two handlers.
TickSteps == {10, 16}
\* Touch targets: NoTarget is an absent e.target, 1 and 2 are text inputs,
\* 3 is a plain view.
NoTarget     == <<>>
TextInputs   == {<<1>>, <<2>>}
PlainViews   == {<<3>>}
\* The text inputs that take the focus.
FocusableInputs == {<<1>>}
Targets      == {NoTarget} \cup TextInputs \cup PlainViews
\* Values of props.keyboardShouldPersistTaps (the booleans are deprecated).
PersistTapsValues == {"undefined", "true", "false", "always", "never", "handled"}
\* endCoordinates.screenY of the keyboard events delivered.
KeyboardScreenYs == {160, 400}
\* Results of a layout measurement (top, height).
MeasuredTops    == {100, 300}
MeasuredHeights == {20}
\* additionalOffset / preventNegativeScrollOffset arguments.
OffsetArgs  == {<<>>, <<0>>, <<10>>}
PreventArgs == {<<>>, <<FALSE>>, <<TRUE>>}

VARIABLES
  \* this.state
  isTouching,
  lastMomentumScrollBeginTime,
  lastMomentumScrollEndTime,
  observedScrollSinceBecomingResponder,
  becameResponderWhileAnimating,
  \* instance fields
  keyboardWillOpenTo,
  additionalScrollOffset,
  preventNegativeScrollOffset,
  additionalOffset,
  \* this.props
  keyboardShouldPersistTaps,
  disableScrollViewPanResponder,
  \* collaborators
  currentlyFocusedField,
  now,
  pendingMeasure,
  \* the handler that ran last, what it returned and what it called
  lastCall,
  ret,
  effects,
  \* history
  scrolledSinceGrant,
  momentum,
  completed,
  \* this._subscriptionKeyboard*: per keyboard event, whether the field holds
  \* a subscription and how often remove() was called on that subscription
  subscriptions,
  \* history: calls of componentWillUnmount since UNSAFE_componentWillMount
  unmounts

stateVars == <<isTouching, lastMomentumScrollBeginTime, lastMomentumScrollEndTime,
               observedScrollSinceBecomingResponder, becameResponderWhileAnimating>>
keyboardVars == <<keyboardWillOpenTo, additionalScrollOffset,
                  preventNegativeScrollOffset, additionalOffset, pendingMeasure>>
propVars == <<keyboardShouldPersistTaps, disableScrollViewPanResponder>>
historyVars == <<scrolledSinceGrant, momentum, completed>>
lifecycleVars == <<subscriptions, unmounts>>
vars == <<stateVars, keyboardVars, propVars, currentlyFocusedField, now,
          lastCall, ret, effects, historyVars, lifecycleVars>>

\* ----------------------------------------------------------------- helpers
Call(op, args) == [op |-> op, args |-> args]
Fx(name, args) == [name |-> name, args |-> args]
Void == <<>>
Returns(b) == <<b>>

\* v || 0 for an optional number
OrZero(v) == IF v = <<>> \/ v[1] = 0 THEN 0 ELSE v[1]
\* !!v for an optional boolean
Truthy(v) == v # <<>> /\ v[1]
Max(a, b) == IF a >= b THEN a ELSE b

\* number of calls named name in a sequence of effects
RECURSIVE CountFx(_, _)
CountFx(fx, name) ==
  IF fx = <<>> THEN 0
  ELSE (IF Head(fx).name = name THEN 1 ELSE 0) + CountFx(Tail(fx), name)

\* TextInputState.isTextInput
isTextInput(target) == target \in TextInputs

\* The keyboard events subscribed to, in the order of Keyboard.addListener.
KeyboardEvents ==
  <<"keyboardWillShow", "keyboardWillHide", "keyboardDidShow", "keyboardDidHide">>
KeyboardEventNames == {KeyboardEvents[i] : i \in DOMAIN KeyboardEvents}

\* The subscription fields after the Keyboard.addListener calls of mount.
Subscribed == [k \in KeyboardEventNames |-> [held |-> TRUE, removed |-> 0]]
\* The subscription fields of a component that was never mounted.
NotSubscribed == [k \in KeyboardEventNames |-> [held |-> FALSE, removed |-> 0]]

\* scrollResponderMixinGetInitialState and UNSAFE_componentWillMount
Init ==
  /\ isTouching = FALSE
  /\ lastMomentumScrollBeginTime = 0
  /\ lastMomentumScrollEndTime = 0
  /\ observedScrollSinceBecomingResponder = FALSE
  /\ becameResponderWhileAnimating = FALSE
  /\ keyboardWillOpenTo = <<>>
  /\ additionalScrollOffset = 0
  /\ preventNegativeScrollOffset = FALSE
  /\ additionalOffset = <<>>
  /\ keyboardShouldPersistTaps \in PersistTapsValues
  /\ disableScrollViewPanResponder \in BOOLEAN
  /\ currentlyFocusedField = <<>>
  /\ now = 0
  /\ pendingMeasure = <<>>
  /\ lastCall = Call("mount", <<>>)
  /\ ret = Void
  /\ effects = <<>>
  /\ scrolledSinceGrant = "nogrant"
  /\ momentum = "none"
  /\ completed = <<>>
  /\ subscriptions = Subscribed
  /\ unmounts = 0

\* ------------------------------------------------------------- environment
\* performanceNow() is monotonic; time passes between handlers.
Tick ==
  /\ \E d \in TickSteps : now + d <= MaxClock /\ now' = now + d
  /\ lastCall' = Call("tick", <<>>)
  /\ UNCHANGED lifecycleVars
  /\ ret' = Void
  /\ effects' = <<>>
  /\ UNCHANGED <<stateVars, keyboardVars, propVars, currentlyFocusedField, historyVars>>

\* TextInputState.currentlyFocusedField() changes as inputs gain and lose focus.
FocusChange ==
  /\ \E f \in {<<>>} \cup FocusableInputs :
       f # currentlyFocusedField /\ currentlyFocusedField' = f
  /\ lastCall' = Call("focus", <<>>)
  /\ UNCHANGED lifecycleVars
  /\ ret' = Void
  /\ effects' = <<>>
  /\ UNCHANGED <<stateVars, keyboardVars, propVars, now, historyVars>>

\* ----------------------------------------------------------------- history
\* momentum is "none" until a momentum event is handled, "begun" after a
\* momentum-begin that no momentum-end preceded, "begunAfterEnd" after a
\* momentum-begin that a momentum-end preceded, "ended" after a momentum-end.
MomentumInFlight == momentum \in {"begun", "begunAfterEnd"}
MomentumEndHandled == momentum \in {"ended", "begunAfterEnd"}

\* --------------------------------------------------------------- predicate
scrollResponderIsAnimating_EndNotAfterBegin ==
  LET timeSinceLastMomentumScrollEnd == now - lastMomentumScrollEndTime
  IN  \/ timeSinceLastMomentumScrollEnd < IS_ANIMATING_TOUCH_START_THRESHOLD_MS
      \/ lastMomentumScrollEndTime <= lastMomentumScrollBeginTime

scrollResponderIsAnimating_InclusiveThreshold ==
  LET timeSinceLastMomentumScrollEnd == now - lastMomentumScrollEndTime
  IN  \/ timeSinceLastMomentumScrollEnd <= IS_ANIMATING_TOUCH_START_THRESHOLD_MS
      \/ lastMomentumScrollEndTime < lastMomentumScrollBeginTime

scrollResponderIsAnimating ==
  LET timeSinceLastMomentumScrollEnd == now - lastMomentumScrollEndTime
  IN  \/ timeSinceLastMomentumScrollEnd < IS_ANIMATING_TOUCH_START_THRESHOLD_MS
      \/ lastMomentumScrollEndTime < lastMomentumScrollBeginTime


\* ------------------------------------------------------ responder handshake
\* What a handler leaves alone besides this.state: the keyboard context, the
\* props, the focus tracker and the clock.
Outside == <<keyboardVars, propVars, currentlyFocusedField, now>>

ScrollShouldSetResponder_IgnoresDisabled == isTouching

\* the result of scrollResponderHandleScrollShouldSetResponder
ScrollShouldSetResponder ==
  IF disableScrollViewPanResponder THEN FALSE ELSE isTouching

scrollResponderHandleScrollShouldSetResponder ==
  /\ lastCall' = Call("scrollResponderHandleScrollShouldSetResponder", <<>>)
  /\ UNCHANGED lifecycleVars
  /\ ret' = Returns(ScrollShouldSetResponder)
  /\ effects' = <<>>
  /\ UNCHANGED <<stateVars, Outside, historyVars>>

StartShouldSetResponder(target) ==
  IF disableScrollViewPanResponder THEN FALSE
  ELSE /\ keyboardShouldPersistTaps = "handled"
       /\ currentlyFocusedField # <<>>
       /\ target # currentlyFocusedField

scrollResponderHandleStartShouldSetResponder ==
  \E target \in Targets :
    /\ lastCall' = Call("scrollResponderHandleStartShouldSetResponder", <<target>>)
    /\ UNCHANGED lifecycleVars
    /\ ret' = Returns(StartShouldSetResponder(target))
    /\ effects' = <<>>
    /\ UNCHANGED <<stateVars, Outside, historyVars>>

keyboardNeverPersistTaps_UnlessAlways ==
  keyboardShouldPersistTaps \notin {"true", "always"}

\* !keyboardShouldPersistTaps || keyboardShouldPersistTaps === 'never'
keyboardNeverPersistTaps ==
  keyboardShouldPersistTaps \in {"undefined", "false", "never"}

StartShouldSetResponderCapture_NoAnimatingCheck(target) ==
  IF disableScrollViewPanResponder THEN FALSE
  ELSE /\ keyboardNeverPersistTaps
       /\ currentlyFocusedField # <<>>
       /\ target # NoTarget
       /\ ~isTextInput(target)

StartShouldSetResponderCapture(target) ==
  IF scrollResponderIsAnimating THEN TRUE
  ELSE IF disableScrollViewPanResponder THEN FALSE
  ELSE /\ keyboardNeverPersistTaps
       /\ currentlyFocusedField # <<>>
       /\ target # NoTarget
       /\ ~isTextInput(target)

scrollResponderHandleStartShouldSetResponderCapture ==
  \E target \in Targets :
    /\ lastCall' = Call("scrollResponderHandleStartShouldSetResponderCapture", <<target>>)
    /\ UNCHANGED lifecycleVars
    /\ ret' = Returns(StartShouldSetResponderCapture(target))
    /\ effects' = <<>>
    /\ UNCHANGED <<stateVars, Outside, historyVars>>

scrollResponderHandleResponderReject ==
  /\ lastCall' = Call("scrollResponderHandleResponderReject", <<>>)
  /\ UNCHANGED lifecycleVars
  /\ ret' = Void
  /\ effects' = <<>>
  /\ UNCHANGED <<stateVars, Outside, historyVars>>

scrollResponderHandleTerminationRequest ==
  /\ lastCall' = Call("scrollResponderHandleTerminationRequest", <<>>)
  /\ UNCHANGED lifecycleVars
  /\ ret' = Returns(~observedScrollSinceBecomingResponder)
  /\ effects' = <<>>
  /\ UNCHANGED <<stateVars, Outside, historyVars>>

\* ---------------------------------------------------------- touch lifecycle
\* nativeEvent.touches.length of a touch-end
RemainingTouches == {0, 1, 2}

TouchEndIsTouching_AlwaysFalse(touches) == FALSE

TouchEndIsTouching(touches) == touches # 0

scrollResponderHandleTouchEnd ==
  \E touches \in RemainingTouches :
    /\ isTouching' = TouchEndIsTouching(touches)
    /\ lastCall' = Call("scrollResponderHandleTouchEnd", <<touches>>)
    /\ UNCHANGED lifecycleVars
    /\ ret' = Void
    /\ effects' = <<Fx("onTouchEnd", <<>>)>>
    /\ UNCHANGED <<lastMomentumScrollBeginTime, lastMomentumScrollEndTime,
                   observedScrollSinceBecomingResponder,
                   becameResponderWhileAnimating, Outside, historyVars>>

scrollResponderHandleTouchCancel ==
  /\ isTouching' = FALSE
  /\ lastCall' = Call("scrollResponderHandleTouchCancel", <<>>)
  /\ UNCHANGED lifecycleVars
  /\ ret' = Void
  /\ effects' = <<Fx("onTouchCancel", <<>>)>>
  /\ UNCHANGED <<lastMomentumScrollBeginTime, lastMomentumScrollEndTime,
                 observedScrollSinceBecomingResponder,
                 becameResponderWhileAnimating, Outside, historyVars>>

scrollResponderHandleTouchStart ==
  /\ isTouching' = TRUE
  /\ lastCall' = Call("scrollResponderHandleTouchStart", <<>>)
  /\ UNCHANGED lifecycleVars
  /\ ret' = Void
  /\ effects' = <<Fx("onTouchStart", <<>>)>>
  /\ UNCHANGED <<lastMomentumScrollBeginTime, lastMomentumScrollEndTime,
                 observedScrollSinceBecomingResponder,
                 becameResponderWhileAnimating, Outside, historyVars>>

scrollResponderHandleTouchMove_MarksTouching ==
  /\ isTouching' = TRUE
  /\ lastCall' = Call("scrollResponderHandleTouchMove", <<>>)
  /\ ret' = Void
  /\ effects' = <<Fx("onTouchMove", <<>>)>>
  /\ UNCHANGED <<lastMomentumScrollBeginTime, lastMomentumScrollEndTime,
                 observedScrollSinceBecomingResponder,
                 becameResponderWhileAnimating, Outside, historyVars, lifecycleVars>>

scrollResponderHandleTouchMove ==
  /\ lastCall' = Call("scrollResponderHandleTouchMove", <<>>)
  /\ UNCHANGED lifecycleVars
  /\ ret' = Void
  /\ effects' = <<Fx("onTouchMove", <<>>)>>
  /\ UNCHANGED <<stateVars, Outside, historyVars>>

ReleaseDismissesKeyboard_IgnoresAnimating(target) ==
  /\ keyboardShouldPersistTaps # "true"
  /\ keyboardShouldPersistTaps # "always"
  /\ currentlyFocusedField # <<>>
  /\ target # currentlyFocusedField
  /\ ~observedScrollSinceBecomingResponder

\* the condition of the if statement of scrollResponderHandleResponderRelease
ReleaseDismissesKeyboard(target) ==
  /\ keyboardShouldPersistTaps # "true"
  /\ keyboardShouldPersistTaps # "always"
  /\ currentlyFocusedField # <<>>
  /\ target # currentlyFocusedField
  /\ ~observedScrollSinceBecomingResponder
  /\ ~becameResponderWhileAnimating

scrollResponderHandleResponderRelease ==
  \E target \in Targets :
    /\ lastCall' = Call("scrollResponderHandleResponderRelease", <<target>>)
    /\ UNCHANGED lifecycleVars
    /\ ret' = Void
    /\ effects' = <<Fx("onResponderRelease", <<>>)>> \o
         (IF ReleaseDismissesKeyboard(target)
          THEN <<Fx("onScrollResponderKeyboardDismissed", <<>>),
                 Fx("blurTextInput", currentlyFocusedField)>>
          ELSE <<>>)
    \* TextInputState.blurTextInput drops the focus of the field it blurs
    /\ currentlyFocusedField' =
         (IF ReleaseDismissesKeyboard(target) THEN <<>> ELSE currentlyFocusedField)
    /\ UNCHANGED <<stateVars, keyboardVars, propVars, now, historyVars>>

ScrollObserved_Forgotten == observedScrollSinceBecomingResponder

\* the value scrollResponderHandleScroll stores in
\* observedScrollSinceBecomingResponder
ScrollObserved == TRUE

scrollResponderHandleScroll ==
  /\ observedScrollSinceBecomingResponder' = ScrollObserved
  /\ lastCall' = Call("scrollResponderHandleScroll", <<>>)
  /\ UNCHANGED lifecycleVars
  /\ ret' = Void
  /\ effects' = <<Fx("onScroll", <<>>)>>
  /\ scrolledSinceGrant' = IF scrolledSinceGrant = "nogrant" THEN "nogrant" ELSE "yes"
  /\ UNCHANGED <<isTouching, lastMomentumScrollBeginTime, lastMomentumScrollEndTime,
                 becameResponderWhileAnimating, Outside, momentum, completed>>

AnimatingAtGrant_OnlyInFlight ==
  lastMomentumScrollEndTime < lastMomentumScrollBeginTime

AnimatingAtGrant_KeepsEarlierLatch ==
  becameResponderWhileAnimating \/ scrollResponderIsAnimating

\* the value scrollResponderHandleResponderGrant stores in
\* becameResponderWhileAnimating, read after the host callback returned
AnimatingAtGrant == scrollResponderIsAnimating

\* The two flags as the host's onResponderGrant finds them: the grant has
\* reset observedScrollSinceBecomingResponder and has not yet assigned
\* becameResponderWhileAnimating.
FlagsAtGrantCallback == <<FALSE, becameResponderWhileAnimating>>

scrollResponderHandleResponderGrant ==
  /\ observedScrollSinceBecomingResponder' = FALSE
  /\ becameResponderWhileAnimating' = AnimatingAtGrant
  /\ lastCall' = Call("scrollResponderHandleResponderGrant", <<>>)
  /\ UNCHANGED lifecycleVars
  /\ ret' = Void
  /\ effects' = <<Fx("onResponderGrant", FlagsAtGrantCallback)>>
  /\ scrolledSinceGrant' = "no"
  /\ UNCHANGED <<isTouching, lastMomentumScrollBeginTime, lastMomentumScrollEndTime,
                 Outside, momentum, completed>>

\* ------------------------------------------------------ scroll and momentum
\* e.nativeEvent.velocity of a drag-end
Velocities == {<<>>, <<[x |-> 0, y |-> 0]>>, <<[x |-> 0, y |-> 2]>>, <<[x |-> 2, y |-> 0]>>}

scrollResponderHandleScrollBeginDrag ==
  /\ lastCall' = Call("scrollResponderHandleScrollBeginDrag", <<>>)
  /\ UNCHANGED lifecycleVars
  /\ ret' = Void
  /\ effects' = <<Fx("FrameRateLogger.beginScroll", <<>>), Fx("onScrollBeginDrag", <<>>)>>
  /\ UNCHANGED <<stateVars, Outside, historyVars>>

EndDragEndsScroll_TestsOneAxis(velocity) ==
  /\ ~scrollResponderIsAnimating
  /\ (velocity = <<>> \/ velocity[1].x = 0)

EndDragEndsScroll(velocity) ==
  /\ ~scrollResponderIsAnimating
  /\ (velocity = <<>> \/ (velocity[1].x = 0 /\ velocity[1].y = 0))

scrollResponderHandleScrollEndDrag ==
  \E velocity \in Velocities :
    /\ lastCall' = Call("scrollResponderHandleScrollEndDrag", <<velocity>>)
    /\ UNCHANGED lifecycleVars
    /\ ret' = Void
    /\ effects' = (IF EndDragEndsScroll(velocity)
                   THEN <<Fx("FrameRateLogger.endScroll", <<>>)>> ELSE <<>>)
                  \o <<Fx("onScrollEndDrag", <<>>)>>
    /\ UNCHANGED <<stateVars, Outside, historyVars>>

scrollResponderHandleMomentumScrollBegin ==
  /\ lastMomentumScrollBeginTime' = now
  /\ lastCall' = Call("scrollResponderHandleMomentumScrollBegin", <<>>)
  /\ UNCHANGED lifecycleVars
  /\ ret' = Void
  /\ effects' = <<Fx("onMomentumScrollBegin", <<>>)>>
  /\ momentum' = IF momentum \in {"ended", "begunAfterEnd"}
                 THEN "begunAfterEnd" ELSE "begun"
  /\ UNCHANGED <<isTouching, lastMomentumScrollEndTime,
                 observedScrollSinceBecomingResponder,
                 becameResponderWhileAnimating, Outside, scrolledSinceGrant, completed>>

scrollResponderHandleMomentumScrollEnd ==
  /\ lastMomentumScrollEndTime' = now
  /\ lastCall' = Call("scrollResponderHandleMomentumScrollEnd", <<>>)
  /\ UNCHANGED lifecycleVars
  /\ ret' = Void
  /\ effects' = <<Fx("FrameRateLogger.endScroll", <<>>), Fx("onMomentumScrollEnd", <<>>)>>
  /\ momentum' = "ended"
  /\ UNCHANGED <<isTouching, lastMomentumScrollBeginTime,
                 observedScrollSinceBecomingResponder,
                 becameResponderWhileAnimating, Outside, scrolledSinceGrant, completed>>

\* ------------------------------------------------------- outbound commands
\* The arguments scrollResponderScrollTo({x, y, animated}) dispatches with the
\* scrollTo command: [x || 0, y || 0, animated !== false].
ScrollToCommand(x, y, animated) ==
  Fx("scrollTo", <<OrZero(x), OrZero(y), animated # <<FALSE>>>>)

\* An optional boolean: undefined, true, false.
OptBool == {<<>>, <<TRUE>>, <<FALSE>>}

\* First arguments of scrollResponderScrollTo: nothing, a number (the
\* deprecated positional form, with y and animated as further arguments) or
\* an options object {x, y, animated}.
ScrollToArgs ==
  {[first |-> "undefined", x |-> <<>>, y |-> <<>>, animated |-> <<>>]}
  \cup {[first |-> "number", x |-> <<5>>, y |-> y, animated |-> a] :
           y \in {<<>>, <<7>>}, a \in OptBool}
  \cup {[first |-> "options", x |-> x, y |-> y, animated |-> a] :
           x \in {<<>>, <<5>>}, y \in {<<>>, <<7>>}, a \in OptBool}

\* The scrollable node is the mounted component's and is not null.
scrollResponderScrollTo ==
  \E a \in ScrollToArgs :
    /\ lastCall' = Call("scrollResponderScrollTo", <<a>>)
    /\ ret' = Void
    /\ effects' = (IF a.first = "number" THEN <<Fx("console.warn", <<>>)>> ELSE <<>>)
                  \o <<ScrollToCommand(a.x, a.y, a.animated)>>
    /\ UNCHANGED <<stateVars, Outside, historyVars, lifecycleVars>>

\* options is absent or an object with an optional animated
ScrollToEndOptions == {<<>>} \cup {<<[animated |-> a]>> : a \in OptBool}

\* (options && options.animated) !== false
ScrollToEndAnimated(options) ==
  (IF options = <<>> THEN <<>> ELSE options[1].animated) # <<FALSE>>

scrollResponderScrollToEnd ==
  \E options \in ScrollToEndOptions :
    /\ lastCall' = Call("scrollResponderScrollToEnd", <<options>>)
    /\ ret' = Void
    /\ effects' = <<Fx("scrollToEnd", <<ScrollToEndAnimated(options)>>)>>
    /\ UNCHANGED <<stateVars, Outside, historyVars, lifecycleVars>>

\* Platform.OS
Platforms == {"ios", "android"}
\* The rect argument's animated key: absent, or present with an optional value.
RectAnimated ==
  {[has |-> FALSE, value |-> <<>>]} \cup {[has |-> TRUE, value |-> a] : a \in OptBool}

\* A failed invariant(...) throws; the handler ends there.
InvariantViolation == Fx("throw", <<"invariant">>)

\* animated after the 'animated' in rect test: the rect's value wins
ZoomToAnimated(rect, animated) == IF rect.has THEN rect.value ELSE animated

ZoomToCalls_NoNativeRefCheck(os, hasNativeScrollRef, rect, animated) ==
  IF os # "ios" THEN <<InvariantViolation>>
  ELSE (IF ~rect.has /\ animated # <<>> THEN <<Fx("console.warn", <<>>)>> ELSE <<>>)
       \o <<Fx("zoomToRect", <<ZoomToAnimated(rect, animated) # <<FALSE>>>>)>>

\* the calls scrollResponderZoomTo makes, in order
ZoomToCalls(os, hasNativeScrollRef, rect, animated) ==
  IF os # "ios" THEN <<InvariantViolation>>
  ELSE (IF ~rect.has /\ animated # <<>> THEN <<Fx("console.warn", <<>>)>> ELSE <<>>)
       \o (IF ~hasNativeScrollRef THEN <<InvariantViolation>>
           ELSE <<Fx("zoomToRect", <<ZoomToAnimated(rect, animated) # <<FALSE>>>>)>>)

scrollResponderZoomTo ==
  \E os \in Platforms, hasNativeScrollRef \in BOOLEAN,
     rect \in RectAnimated, animated \in OptBool :
    /\ lastCall' = Call("scrollResponderZoomTo",
                        <<os, hasNativeScrollRef, rect, animated>>)
    /\ ret' = Void
    /\ effects' = ZoomToCalls(os, hasNativeScrollRef, rect, animated)
    /\ UNCHANGED <<stateVars, Outside, historyVars, lifecycleVars>>

scrollResponderFlashScrollIndicators ==
  /\ lastCall' = Call("scrollResponderFlashScrollIndicators", <<>>)
  /\ ret' = Void
  /\ effects' = <<Fx("flashScrollIndicators", <<>>)>>
  /\ UNCHANGED <<stateVars, Outside, historyVars, lifecycleVars>>

\* ----------------------------------------------------- keyboard coordination
\* What the keyboard and scroll-to-keyboard handlers leave alone.
Responder == <<stateVars, propVars, currentlyFocusedField, now,
               scrolledSinceGrant, momentum>>

\* pendingMeasure with the keyboard event kind noted on every measurement in
\* flight (history: the last event that wrote keyboardWillOpenTo since the
\* operation started).
NoteKeyboard(kind, screenY) ==
  [i \in DOMAIN pendingMeasure |->
     [pendingMeasure[i] EXCEPT !.kbdSince = [kind |-> kind, screenY |-> screenY]]]

StoredFrameAtCallback_BeforeUpdate(stored) == keyboardWillOpenTo

\* this.keyboardWillOpenTo as the host's onKeyboard* callback finds it: every
\* keyboard handler assigns the field first (stored) and calls the host after.
StoredFrameAtCallback(stored) == stored

\* A host keyboard callback: its payload and the stored frame it finds.
KeyboardCallback(name, e, stored) == Fx(name, <<e, StoredFrameAtCallback(stored)>>)

scrollResponderKeyboardWillShow ==
  \E screenY \in KeyboardScreenYs :
    /\ keyboardWillOpenTo' = <<screenY>>
    /\ pendingMeasure' = NoteKeyboard("show", screenY)
    /\ lastCall' = Call("scrollResponderKeyboardWillShow", <<screenY>>)
    /\ UNCHANGED lifecycleVars
    /\ ret' = Void
    /\ effects' = <<KeyboardCallback("onKeyboardWillShow", <<screenY>>, <<screenY>>)>>
    /\ completed' = <<>>
    /\ UNCHANGED <<additionalScrollOffset, preventNegativeScrollOffset,
                   additionalOffset, Responder>>

FrameAfterHide_Stale == keyboardWillOpenTo

\* the value scrollResponderKeyboardWillHide and scrollResponderKeyboardDidHide
\* store in keyboardWillOpenTo
FrameAfterHide == <<>>

scrollResponderKeyboardWillHide ==
  /\ keyboardWillOpenTo' = FrameAfterHide
  /\ pendingMeasure' = NoteKeyboard("hide", 0)
  /\ lastCall' = Call("scrollResponderKeyboardWillHide", <<>>)
  /\ UNCHANGED lifecycleVars
  /\ ret' = Void
  /\ effects' = <<KeyboardCallback("onKeyboardWillHide", <<>>, FrameAfterHide)>>
  /\ completed' = <<>>
  /\ UNCHANGED <<additionalScrollOffset, preventNegativeScrollOffset,
                 additionalOffset, Responder>>

FrameAfterDidShow_AlwaysAssigns(e) == e

\* the value of keyboardWillOpenTo after scrollResponderKeyboardDidShow(e)
FrameAfterDidShow(e) == IF e # <<>> THEN e ELSE keyboardWillOpenTo

\* e is absent on platforms that deliver no payload with did-show
scrollResponderKeyboardDidShow ==
  \E e \in {<<>>} \cup {<<screenY>> : screenY \in KeyboardScreenYs} :
    /\ keyboardWillOpenTo' = FrameAfterDidShow(e)
    /\ pendingMeasure' = IF e # <<>> THEN NoteKeyboard("show", e[1]) ELSE pendingMeasure
    /\ lastCall' = Call("scrollResponderKeyboardDidShow", e)
    /\ UNCHANGED lifecycleVars
    /\ ret' = Void
    /\ effects' = <<KeyboardCallback("onKeyboardDidShow", e, FrameAfterDidShow(e))>>
    /\ completed' = <<>>
    /\ UNCHANGED <<additionalScrollOffset, preventNegativeScrollOffset,
                   additionalOffset, Responder>>

scrollResponderKeyboardDidHide ==
  /\ keyboardWillOpenTo' = FrameAfterHide
  /\ pendingMeasure' = NoteKeyboard("hide", 0)
  /\ lastCall' = Call("scrollResponderKeyboardDidHide", <<>>)
  /\ UNCHANGED lifecycleVars
  /\ ret' = Void
  /\ effects' = <<KeyboardCallback("onKeyboardDidHide", <<>>, FrameAfterHide)>>
  /\ completed' = <<>>
  /\ UNCHANGED <<additionalScrollOffset, preventNegativeScrollOffset,
                 additionalOffset, Responder>>

\* --------------------------------------------------------- scroll to keyboard
\* typeof nodeHandle === 'number', or a component reference
HandleKinds == {"number", "ref"}

\* A measurement in flight.  offset and prevent are what the call that
\* started it stored; frameAtStart, kbdSince and overlapped are history.
Measurement(offset, prevent) ==
  [offset |-> offset, prevent |-> prevent, frameAtStart |-> keyboardWillOpenTo,
   kbdSince |-> [kind |-> "none", screenY |-> 0], overlapped |-> pendingMeasure # <<>>]

scrollResponderScrollNativeHandleToKeyboard ==
  \E kind \in HandleKinds, additionalOffsetArg \in OffsetArgs,
     preventNegativeScrollOffsetArg \in PreventArgs :
    /\ Len(pendingMeasure) < MaxPending
    /\ additionalScrollOffset' = OrZero(additionalOffsetArg)
    /\ preventNegativeScrollOffset' = Truthy(preventNegativeScrollOffsetArg)
    /\ pendingMeasure' =
         Append([i \in DOMAIN pendingMeasure |->
                   [pendingMeasure[i] EXCEPT !.overlapped = TRUE]],
                Measurement(OrZero(additionalOffsetArg),
                            Truthy(preventNegativeScrollOffsetArg)))
    /\ lastCall' = Call("scrollResponderScrollNativeHandleToKeyboard",
                        <<kind, additionalOffsetArg, preventNegativeScrollOffsetArg>>)
    /\ UNCHANGED lifecycleVars
    /\ ret' = Void
    /\ effects' = <<Fx(IF kind = "number" THEN "UIManager.measureLayout"
                       ELSE "nodeHandle.measureLayout", <<>>)>>
    /\ completed' = <<>>
    /\ UNCHANGED <<keyboardWillOpenTo, additionalOffset, Responder>>

\* pendingMeasure without its i-th element
Without(i) ==
  [j \in 1..(Len(pendingMeasure) - 1) |->
     IF j < i THEN pendingMeasure[j] ELSE pendingMeasure[j + 1]]

keyboardScreenY ==
  IF keyboardWillOpenTo # <<>> THEN keyboardWillOpenTo[1] ELSE WindowHeight

ScrollOffsetY_NeverClamped(top, height) ==
  top - keyboardScreenY + height + additionalScrollOffset

\* scrollOffsetY as scrollResponderInputMeasureAndScrollToKeyboard computes it
ScrollOffsetY(top, height) ==
  LET scrollOffsetY == top - keyboardScreenY + height + additionalScrollOffset
  IN  IF preventNegativeScrollOffset THEN Max(0, scrollOffsetY) ELSE scrollOffsetY

\* The success callback of a measurement in flight.  The code resets
\* this.additionalOffset, not this.additionalScrollOffset.
scrollResponderInputMeasureAndScrollToKeyboard ==
  \E i \in DOMAIN pendingMeasure, top \in MeasuredTops, height \in MeasuredHeights :
    /\ effects' = <<ScrollToCommand(<<0>>, <<ScrollOffsetY(top, height)>>, <<TRUE>>)>>
    /\ additionalOffset' = <<0>>
    /\ preventNegativeScrollOffset' = FALSE
    /\ pendingMeasure' = Without(i)
    /\ lastCall' = Call("scrollResponderInputMeasureAndScrollToKeyboard", <<top, height>>)
    /\ UNCHANGED lifecycleVars
    /\ ret' = Void
    /\ completed' = <<pendingMeasure[i]>>
    /\ UNCHANGED <<keyboardWillOpenTo, additionalScrollOffset, Responder>>

TextInputFocusErrorCalls_ScrollsAnyway ==
  <<Fx("console.error", <<>>), ScrollToCommand(<<0>>, <<0>>, <<TRUE>>)>>

\* the calls scrollResponderTextInputFocusError makes
TextInputFocusErrorCalls == <<Fx("console.error", <<>>)>>

\* The error callback of a measurement in flight.
scrollResponderTextInputFocusError ==
  \E i \in DOMAIN pendingMeasure :
    /\ effects' = TextInputFocusErrorCalls
    /\ pendingMeasure' = Without(i)
    /\ lastCall' = Call("scrollResponderTextInputFocusError", <<>>)
    /\ UNCHANGED lifecycleVars
    /\ ret' = Void
    /\ completed' = <<pendingMeasure[i]>>
    /\ UNCHANGED <<keyboardWillOpenTo, additionalScrollOffset,
                   preventNegativeScrollOffset, additionalOffset, Responder>>

\* ------------------------------------------------------------ specification
Next ==
  \/ Tick
  \/ FocusChange
  \/ scrollResponderHandleScrollShouldSetResponder
  \/ scrollResponderHandleStartShouldSetResponder
  \/ scrollResponderHandleStartShouldSetResponderCapture
  \/ scrollResponderHandleResponderReject
  \/ scrollResponderHandleTerminationRequest
  \/ scrollResponderHandleTouchEnd
  \/ scrollResponderHandleTouchCancel
  \/ scrollResponderHandleTouchStart
  \/ scrollResponderHandleTouchMove
  \/ scrollResponderHandleResponderRelease
  \/ scrollResponderHandleScroll
  \/ scrollResponderHandleResponderGrant
  \/ scrollResponderHandleScrollBeginDrag
  \/ scrollResponderHandleScrollEndDrag
  \/ scrollResponderHandleMomentumScrollBegin
  \/ scrollResponderHandleMomentumScrollEnd
  \/ scrollResponderKeyboardWillShow
  \/ scrollResponderKeyboardWillHide
  \/ scrollResponderKeyboardDidShow
  \/ scrollResponderKeyboardDidHide

Spec == Init /\ [][Next]_vars

\* The keyboard context: the four keyboard handlers and the scroll-to-keyboard
\* operation with its measurement callbacks, under the default props, with
\* two handlers that write this.state.
InitKeyboard ==
  /\ Init
  /\ keyboardShouldPersistTaps = "undefined"
  /\ disableScrollViewPanResponder = FALSE

NextKeyboard ==
  \/ scrollResponderKeyboardWillShow
  \/ scrollResponderKeyboardWillHide
  \/ scrollResponderKeyboardDidShow
  \/ scrollResponderKeyboardDidHide
  \/ scrollResponderScrollNativeHandleToKeyboard
  \/ scrollResponderInputMeasureAndScrollToKeyboard
  \/ scrollResponderTextInputFocusError
  \/ scrollResponderHandleTouchStart
  \/ scrollResponderHandleScroll

SpecKeyboard == InitKeyboard /\ [][NextKeyboard]_vars


\* ==================================================================== claims

\* C1: once a responder-grant has been handled, the termination-request
\* handler returns true exactly when no scroll event has been handled since
\* the most recent grant, and observedScrollSinceBecomingResponder is false
\* from a grant until the first following scroll event and true from then
\* until the next grant, whatever release, touch, momentum, drag or keyboard
\* events come in between.
C1_TerminationIffNoScrollSinceGrant ==
  scrolledSinceGrant # "nogrant" =>
    /\ observedScrollSinceBecomingResponder = (scrolledSinceGrant = "yes")
    /\ lastCall.op = "scrollResponderHandleTerminationRequest" =>
         ret = Returns(scrolledSinceGrant = "no")

C1_Witness ==
  /\ lastCall.op = "scrollResponderHandleTerminationRequest"
  /\ scrolledSinceGrant = "yes"
  /\ ret = Returns(FALSE)
  /\ momentum = "ended"
  /\ keyboardWillOpenTo # <<>>

\* C2: on responder-release the focused text input is blurred exactly once
\* and onScrollResponderKeyboardDismissed is invoked exactly once when the
\* tap-dismiss policy is neither 'always' nor true, a text input is focused,
\* the release target is not that input, no scroll was observed since the
\* grant and the responder was not acquired while animating; when any of the
\* five fails neither happens.  The five are read as the release finds
\* them: the blurred input has lost the focus when the handler returns.
C2_ReleaseDismissesIffFiveConditions ==
  [][lastCall'.op = "scrollResponderHandleResponderRelease" =>
       LET target == lastCall'.args[1]
           five == /\ keyboardShouldPersistTaps \notin {"always", "true"}
                   /\ currentlyFocusedField # <<>>
                   /\ target # currentlyFocusedField
                   /\ ~observedScrollSinceBecomingResponder
                   /\ ~becameResponderWhileAnimating
           blurs == CountFx(effects', "blurTextInput")
           notes == CountFx(effects', "onScrollResponderKeyboardDismissed")
       IN  IF five
           THEN /\ blurs = 1
                /\ notes = 1
                /\ effects'[Len(effects')] = Fx("blurTextInput", currentlyFocusedField)
                /\ currentlyFocusedField' = <<>>
           ELSE /\ blurs = 0
                /\ notes = 0
                /\ currentlyFocusedField' = currentlyFocusedField]_vars

C2_Witness ==
  /\ lastCall = Call("scrollResponderHandleResponderRelease", <<<<3>>>>)
  /\ keyboardShouldPersistTaps = "never"
  /\ currentlyFocusedField = <<>>
  /\ effects[Len(effects)] = Fx("blurTextInput", <<1>>)
  /\ scrolledSinceGrant = "no"
  /\ ~becameResponderWhileAnimating
  /\ CountFx(effects, "blurTextInput") = 1
  /\ CountFx(effects, "onScrollResponderKeyboardDismissed") = 1

\* C3 (as claimed): the capture-phase should-set-responder query returns
\* false whenever the pan responder is disabled, also while isAnimating() is
\* true.  The code asks scrollResponderIsAnimating() first.
C3_CaptureFalseWhenPanResponderDisabled ==
  (/\ lastCall.op = "scrollResponderHandleStartShouldSetResponderCapture"
   /\ disableScrollViewPanResponder)
    => ret = Returns(FALSE)

\* C4: with the pan responder enabled, a capture-phase should-set-responder
\* query made while isAnimating() is true returns true, for every touch
\* target, tap-dismiss policy and focus.
C4_CaptureTrueWhileAnimating ==
  (/\ lastCall.op = "scrollResponderHandleStartShouldSetResponderCapture"
   /\ ~disableScrollViewPanResponder
   /\ scrollResponderIsAnimating)
    => ret = Returns(TRUE)

C4_Witness ==
  /\ lastCall = Call("scrollResponderHandleStartShouldSetResponderCapture", <<<<2>>>>)
  /\ ~disableScrollViewPanResponder
  /\ keyboardShouldPersistTaps = "always"
  /\ momentum = "ended"
  /\ lastMomentumScrollEndTime > 0
  /\ now - lastMomentumScrollEndTime = 10
  /\ ret = Returns(TRUE)

\* C5: once a momentum-end has been handled, isAnimating() is true at every
\* clock reading less than 16 ms after the recorded momentum-end, and false
\* at every reading 16 ms or more after it when no momentum-begin has been
\* handled since that momentum-end.
C5_AnimatingWindowAfterMomentumEnd ==
  MomentumEndHandled =>
    /\ now - lastMomentumScrollEndTime < 16 => scrollResponderIsAnimating
    /\ (now - lastMomentumScrollEndTime >= 16 /\ momentum = "ended")
         => ~scrollResponderIsAnimating

C5_Witness ==
  /\ momentum = "ended"
  /\ lastMomentumScrollBeginTime > 0
  /\ lastMomentumScrollEndTime = lastMomentumScrollBeginTime
  /\ now - lastMomentumScrollEndTime = 16
  /\ ~scrollResponderIsAnimating

\* C6 (as claimed): while momentum is in flight (a momentum-begin handled
\* and no momentum-end after it) isAnimating() is true, whatever clock
\* readings the handlers recorded and however much time has passed.  The
\* code compares the two readings with <, so a begin recorded at the reading
\* of the preceding end is in flight and not animating once 16 ms have passed.
C6_AnimatingWhileMomentumInFlight ==
  MomentumInFlight => scrollResponderIsAnimating

\* C7: isTouching is false right after a touch-cancel and after a touch-end
\* with no remaining touches, true right after a touch-start and after a
\* touch-end with remaining touches, and no other handler changes it.
C7_IsTouchingFollowsTouches ==
  [][/\ lastCall'.op = "scrollResponderHandleTouchCancel" => ~isTouching'
     /\ lastCall'.op = "scrollResponderHandleTouchStart" => isTouching'
     /\ lastCall'.op = "scrollResponderHandleTouchEnd" =>
          isTouching' = (lastCall'.args[1] # 0)
     /\ isTouching' # isTouching =>
          lastCall'.op \in {"scrollResponderHandleTouchStart",
                            "scrollResponderHandleTouchEnd",
                            "scrollResponderHandleTouchCancel"}]_vars

C7_Witness ==
  /\ lastCall = Call("scrollResponderHandleTouchEnd", <<1>>)
  /\ isTouching
  /\ scrolledSinceGrant = "yes"
  /\ MomentumInFlight

\* The measurement whose success callback ran last, the scroll offset it
\* issued, and the offsets the code can issue for a keyboard at kbY.
CompletedMeasure == completed[1]
IssuedScrollTo == effects[1]
OffsetsFor(kbY) ==
  LET raw == lastCall.args[1] - kbY + lastCall.args[2] + additionalScrollOffset
  IN  {raw, Max(0, raw)}

\* C8 (as claimed): after the measurement success callback has issued its
\* scroll-to command, the stored additional offset is 0 and the stored
\* prevent-negative-offset flag is false.  The code stores 0 in
\* this.additionalOffset and leaves this.additionalScrollOffset as it was.
C8_OneShotParametersReset ==
  lastCall.op = "scrollResponderInputMeasureAndScrollToKeyboard" =>
    /\ additionalScrollOffset = 0
    /\ preventNegativeScrollOffset = FALSE

\* C9: a scroll-to-keyboard operation that no other such operation overlaps
\* issues scrollTo with x = 0, animated = true and
\* y = top - keyboardScreenY + height + additionalOffset, raised to 0 when
\* negative and preventNegativeOffset was passed, where keyboardScreenY is
\* the stored keyboard frame's screenY, or the window height without a frame.
C9_IssuedOffsetOfSingleOperation ==
  (/\ lastCall.op = "scrollResponderInputMeasureAndScrollToKeyboard"
   /\ ~CompletedMeasure.overlapped)
    => LET top == lastCall.args[1]
           height == lastCall.args[2]
           kbY == IF keyboardWillOpenTo # <<>> THEN keyboardWillOpenTo[1]
                  ELSE WindowHeight
           raw == top - kbY + height + CompletedMeasure.offset
       IN  effects = <<Fx("scrollTo",
                          <<0, IF CompletedMeasure.prevent /\ raw < 0 THEN 0 ELSE raw,
                            TRUE>>)>>

C9_Witness ==
  /\ lastCall = Call("scrollResponderInputMeasureAndScrollToKeyboard", <<100, 20>>)
  /\ ~CompletedMeasure.overlapped
  /\ CompletedMeasure.prevent
  /\ CompletedMeasure.offset = 0
  /\ keyboardWillOpenTo = <<160>>
  /\ IssuedScrollTo = Fx("scrollTo", <<0, 0, TRUE>>)

\* C10: when the last keyboard event handled between the start of a
\* scroll-to-keyboard operation and its measurement success is a will-hide
\* or did-hide, the issued offset is computed with the window height as
\* keyboardScreenY; when it is a will-show (or a did-show with a payload),
\* the offset is computed with the frame of that event.
C10_CompletionReadsCurrentKeyboardFrame ==
  lastCall.op = "scrollResponderInputMeasureAndScrollToKeyboard" =>
    /\ CompletedMeasure.kbdSince.kind = "hide" =>
         IssuedScrollTo.args[2] \in OffsetsFor(WindowHeight)
    /\ CompletedMeasure.kbdSince.kind = "show" =>
         IssuedScrollTo.args[2] \in OffsetsFor(CompletedMeasure.kbdSince.screenY)

C10_Witness ==
  /\ lastCall = Call("scrollResponderInputMeasureAndScrollToKeyboard", <<300, 20>>)
  /\ CompletedMeasure.frameAtStart = <<160>>
  /\ CompletedMeasure.kbdSince.kind = "hide"
  /\ ~CompletedMeasure.overlapped
  /\ CompletedMeasure.offset = 10
  /\ IssuedScrollTo = Fx("scrollTo", <<0, 300 - WindowHeight + 20 + 10, TRUE>>)

\* C11: when the layout measurement of a scroll-to-keyboard operation
\* fails, the error callback reports the error with console.error and does
\* nothing else: it issues no scrollTo, throws nothing, leaves this.state and
\* the stored keyboard frame as they were, and the operation is over (its
\* measurement is no longer in flight, so no later callback scrolls for it).
C11_MeasureFailureOnlyReports ==
  [][lastCall'.op = "scrollResponderTextInputFocusError" =>
       /\ effects' = <<Fx("console.error", <<>>)>>
       /\ CountFx(effects', "scrollTo") = 0
       /\ CountFx(effects', "throw") = 0
       /\ UNCHANGED <<stateVars, keyboardWillOpenTo>>
       /\ Len(pendingMeasure') = Len(pendingMeasure) - 1]_vars

C11_Witness ==
  /\ lastCall.op = "scrollResponderTextInputFocusError"
  /\ effects = <<Fx("console.error", <<>>)>>
  /\ isTouching
  /\ observedScrollSinceBecomingResponder
  /\ keyboardWillOpenTo = <<160>>
  /\ CompletedMeasure.prevent
  /\ pendingMeasure = <<>>

\* The four keyboard handlers.
KeyboardHandlers ==
  {"scrollResponderKeyboardWillShow", "scrollResponderKeyboardWillHide",
   "scrollResponderKeyboardDidShow", "scrollResponderKeyboardDidHide"}

\* C12: the stored keyboard frame is null at mount, becomes the payload of
\* every will-show and of every did-show that carries one, becomes null at
\* every will-hide and did-hide, is left as it was by a did-show without a
\* payload, and is changed by no other handler; so it is always the payload
\* of the most recent show if no hide came after it, and null otherwise.
C12_StoredFrameFollowsKeyboardEvents ==
  [][/\ lastCall'.op = "scrollResponderKeyboardWillShow" =>
          keyboardWillOpenTo' = lastCall'.args
     /\ (lastCall'.op = "scrollResponderKeyboardDidShow" /\ lastCall'.args # <<>>) =>
          keyboardWillOpenTo' = lastCall'.args
     /\ (lastCall'.op = "scrollResponderKeyboardDidShow" /\ lastCall'.args = <<>>) =>
          keyboardWillOpenTo' = keyboardWillOpenTo
     /\ lastCall'.op \in {"scrollResponderKeyboardWillHide",
                          "scrollResponderKeyboardDidHide"} =>
          keyboardWillOpenTo' = <<>>
     /\ keyboardWillOpenTo' # keyboardWillOpenTo => lastCall'.op \in KeyboardHandlers
     /\ lastCall.op = "mount" => keyboardWillOpenTo = <<>>]_vars

C12_Witness ==
  /\ lastCall = Call("scrollResponderKeyboardDidShow", <<>>)
  /\ keyboardWillOpenTo = <<400>>
  /\ scrolledSinceGrant = "yes"
  /\ isTouching

\* C13: each keyboard handler stores (or clears) the keyboard frame before it
\* calls the host's onKeyboardWillShow / DidShow / WillHide / DidHide, so the
\* callback finds the frame of this event: the payload after a will-show and
\* a did-show with a payload, null after a hide, and the frame stored before
\* after a did-show without a payload.
C13_FrameStoredBeforeHostCallback ==
  [][lastCall'.op \in KeyboardHandlers =>
       LET found == effects'[1].args[2]
       IN  /\ Len(effects') = 1
           /\ found = keyboardWillOpenTo'
           /\ found = CASE lastCall'.op = "scrollResponderKeyboardWillShow" -> lastCall'.args
                        [] lastCall'.op = "scrollResponderKeyboardDidShow" ->
                             IF lastCall'.args # <<>> THEN lastCall'.args
                             ELSE keyboardWillOpenTo
                        [] OTHER -> <<>>]_vars

C13_Witness ==
  /\ lastCall = Call("scrollResponderKeyboardWillHide", <<>>)
  /\ effects = <<Fx("onKeyboardWillHide", <<<<>>, <<>>>>)>>
  /\ keyboardWillOpenTo = <<>>
  /\ Len(pendingMeasure) = 1
  /\ pendingMeasure[1].frameAtStart = <<400>>
  /\ pendingMeasure[1].kbdSince.kind = "hide"

\* The outbound commands and every handler that reads or writes this.state,
\* under the default props.
NextCommands ==
  \/ Tick
  \/ scrollResponderScrollTo
  \/ scrollResponderScrollToEnd
  \/ scrollResponderZoomTo
  \/ scrollResponderFlashScrollIndicators
  \/ scrollResponderHandleScrollShouldSetResponder
  \/ scrollResponderHandleStartShouldSetResponder
  \/ scrollResponderHandleStartShouldSetResponderCapture
  \/ scrollResponderHandleResponderReject
  \/ scrollResponderHandleTerminationRequest
  \/ scrollResponderHandleTouchStart
  \/ scrollResponderHandleTouchMove
  \/ scrollResponderHandleTouchCancel
  \/ scrollResponderHandleScroll
  \/ scrollResponderHandleResponderGrant
  \/ scrollResponderHandleScrollBeginDrag
  \/ scrollResponderHandleScrollEndDrag
  \/ scrollResponderHandleMomentumScrollBegin
  \/ scrollResponderHandleMomentumScrollEnd
  \/ scrollResponderKeyboardWillShow
  \/ scrollResponderKeyboardWillHide
  \/ scrollResponderKeyboardDidShow
  \/ scrollResponderKeyboardDidHide

SpecCommands == InitKeyboard /\ [][NextCommands]_vars

\* ---------------------------------------------------------------- lifecycle
\* A component that is constructed and not yet mounted.
InitLifecycle ==
  /\ isTouching = FALSE
  /\ lastMomentumScrollBeginTime = 0
  /\ lastMomentumScrollEndTime = 0
  /\ observedScrollSinceBecomingResponder = FALSE
  /\ becameResponderWhileAnimating = FALSE
  /\ keyboardWillOpenTo = <<>>
  /\ additionalScrollOffset = 0
  /\ preventNegativeScrollOffset = FALSE
  /\ additionalOffset = <<>>
  /\ keyboardShouldPersistTaps \in PersistTapsValues
  /\ disableScrollViewPanResponder = FALSE
  /\ currentlyFocusedField = <<>>
  /\ now = 0
  /\ pendingMeasure = <<>>
  /\ lastCall = Call("scrollResponderMixinGetInitialState", <<>>)
  /\ ret = Void
  /\ effects = <<>>
  /\ scrolledSinceGrant = "nogrant"
  /\ momentum = "none"
  /\ completed = <<>>
  /\ subscriptions = NotSubscribed
  /\ unmounts = 0

\* typeof keyboardShouldPersistTaps === 'boolean'
DeprecatedPersistTaps == keyboardShouldPersistTaps \in {"true", "false"}

\* React mounts a component once.
UNSAFE_componentWillMount ==
  /\ subscriptions = NotSubscribed
  /\ keyboardWillOpenTo' = <<>>
  /\ additionalScrollOffset' = 0
  /\ subscriptions' = Subscribed
  /\ unmounts' = 0
  /\ lastCall' = Call("UNSAFE_componentWillMount", <<>>)
  /\ ret' = Void
  /\ effects' = (IF DeprecatedPersistTaps THEN <<Fx("console.warn", <<>>)>> ELSE <<>>)
                \o [i \in DOMAIN KeyboardEvents |->
                      Fx("Keyboard.addListener", <<KeyboardEvents[i]>>)]
  /\ UNCHANGED <<stateVars, preventNegativeScrollOffset, additionalOffset,
                 pendingMeasure, propVars, currentlyFocusedField, now, historyVars>>

ReleasedAtUnmount_ForgetsDidHide ==
  <<"keyboardWillShow", "keyboardWillHide", "keyboardDidShow">>

\* The subscription fields componentWillUnmount releases, in its order.
ReleasedAtUnmount ==
  <<"keyboardWillShow", "keyboardWillHide", "keyboardDidShow", "keyboardDidHide">>

\* The fields among ks that hold a subscription (!= null), in order.
RECURSIVE HeldAmong(_)
HeldAmong(ks) ==
  IF ks = <<>> THEN <<>>
  ELSE (IF subscriptions[Head(ks)].held THEN <<Head(ks)>> ELSE <<>>)
       \o HeldAmong(Tail(ks))

\* The fields are not cleared after remove().
componentWillUnmount ==
  LET released == HeldAmong(ReleasedAtUnmount)
      names == {released[i] : i \in DOMAIN released}
  IN  /\ unmounts < MaxUnmounts
      /\ subscriptions' =
           [k \in KeyboardEventNames |->
              IF k \in names
              THEN [subscriptions[k] EXCEPT !.removed = @ + 1]
              ELSE subscriptions[k]]
      /\ unmounts' = unmounts + 1
      /\ lastCall' = Call("componentWillUnmount", <<>>)
      /\ ret' = Void
      /\ effects' = [i \in DOMAIN released |-> Fx("remove", <<released[i]>>)]
      /\ UNCHANGED <<stateVars, keyboardVars, propVars, currentlyFocusedField,
                     now, historyVars>>

\* The emitter delivers an event to a subscription that was added and not removed.
Delivers(k) == subscriptions[k].held /\ subscriptions[k].removed = 0

DeliverKeyboardWillShow ==
  Delivers("keyboardWillShow") /\ scrollResponderKeyboardWillShow
DeliverKeyboardWillHide ==
  Delivers("keyboardWillHide") /\ scrollResponderKeyboardWillHide
DeliverKeyboardDidShow ==
  Delivers("keyboardDidShow") /\ scrollResponderKeyboardDidShow
DeliverKeyboardDidHide ==
  Delivers("keyboardDidHide") /\ scrollResponderKeyboardDidHide

NextLifecycle ==
  \/ Tick
  \/ UNSAFE_componentWillMount
  \/ componentWillUnmount
  \/ DeliverKeyboardWillShow
  \/ DeliverKeyboardWillHide
  \/ DeliverKeyboardDidShow
  \/ DeliverKeyboardDidHide

SpecLifecycle == InitLifecycle /\ [][NextLifecycle]_vars

\* UNSAFE_componentWillMount has run
Mounted == \A k \in KeyboardEventNames : subscriptions[k].held

\* C15 as stated: after mount followed by any number of unmount calls,
\* remove() has been called exactly once on each of the four subscriptions.
C15_RemovedExactlyOnce ==
  (Mounted /\ unmounts >= 1) =>
    \A k \in KeyboardEventNames : subscriptions[k].removed = 1

\* C15 amended: every call of componentWillUnmount after mount calls remove()
\* once on each of the four subscriptions, in the order they were added, so
\* each was removed as often as the component was unmounted (exactly once
\* after the one unmount of a component's life); an unmount with no prior
\* mount calls remove() on nothing and does not fail.
C15_RemovedOncePerUnmount ==
  /\ \A k \in KeyboardEventNames :
        subscriptions[k].removed = (IF Mounted THEN unmounts ELSE 0)
  /\ lastCall.op = "componentWillUnmount" =>
        /\ ret = Void
        /\ effects = (IF Mounted
                      THEN <<Fx("remove", <<"keyboardWillShow">>),
                             Fx("remove", <<"keyboardWillHide">>),
                             Fx("remove", <<"keyboardDidShow">>),
                             Fx("remove", <<"keyboardDidHide">>)>>
                      ELSE <<>>)

C15_Witness ==
  /\ lastCall.op = "componentWillUnmount"
  /\ Mounted
  /\ unmounts = 1
  /\ \A k \in KeyboardEventNames : subscriptions[k].removed = 1
  /\ keyboardWillOpenTo = <<400>>

\* The scroll interactions the native scroll view reports: a drag-end closes
\* the drag-begin just before it, with no momentum event in between, so the
\* interaction the tracker was told of at drag-begin is the one drag-end is
\* deciding about.
DragEndClosesDrag ==
  /\ lastCall.op = "scrollResponderHandleScrollBeginDrag"
  /\ scrollResponderHandleScrollEndDrag

NextScroll ==
  \/ Tick
  \/ scrollResponderHandleScrollBeginDrag
  \/ DragEndClosesDrag
  \/ scrollResponderHandleMomentumScrollBegin
  \/ scrollResponderHandleMomentumScrollEnd

SpecScroll == InitKeyboard /\ [][NextScroll]_vars

\* the velocity of the drag-end handled last is absent or zero on both axes
NoVelocity(velocity) ==
  velocity = <<>> \/ (velocity[1].x = 0 /\ velocity[1].y = 0)

\* C14: a scroll interaction begun on the tracker at drag-begin is ended: a
\* drag-end with no velocity, after which no momentum follows, closes the
\* interaction, so FrameRateLogger.endScroll is notified by it, also when it
\* arrives within 16 ms of a previous momentum-end (the last momentum-begin
\* having had its momentum-end).
C14_EndScrollAtClosingDragEnd ==
  (/\ lastCall.op = "scrollResponderHandleScrollEndDrag"
   /\ NoVelocity(lastCall.args[1])
   /\ momentum = "ended")
  => CountFx(effects, "FrameRateLogger.endScroll") >= 1

\* C16: the termination-request handler returns true exactly when the
\* responder lock was acquired during an animation, that is when
\* becameResponderWhileAnimating was set true by the most recent grant.
C16_TerminationIffGrantedWhileAnimating ==
  (/\ lastCall.op = "scrollResponderHandleTerminationRequest"
   /\ scrolledSinceGrant # "nogrant")
  => ret = Returns(becameResponderWhileAnimating)

\* C17: the bubble-phase should-set-responder query returns true exactly when
\* isTouching is true and the pan responder is not disabled, false in every
\* other state, and changes nothing of the component.
C17_BubbleQueryIsTouchingUnlessDisabled ==
  [][lastCall'.op = "scrollResponderHandleScrollShouldSetResponder" =>
       /\ ret' = Returns(isTouching /\ ~disableScrollViewPanResponder)
       /\ effects' = <<>>
       /\ UNCHANGED <<stateVars, keyboardVars, propVars, lifecycleVars>>]_vars

C17_Witness ==
  /\ lastCall.op = "scrollResponderHandleScrollShouldSetResponder"
  /\ isTouching
  /\ disableScrollViewPanResponder
  /\ ret = Returns(FALSE)
  /\ observedScrollSinceBecomingResponder
  /\ momentum = "begun"

\* The handlers and commands that are not to write this.state.
StateReaders ==
  {"scrollResponderScrollTo", "scrollResponderScrollToEnd",
   "scrollResponderZoomTo", "scrollResponderFlashScrollIndicators",
   "scrollResponderHandleTouchMove", "scrollResponderHandleResponderReject",
   "scrollResponderHandleTerminationRequest",
   "scrollResponderHandleScrollShouldSetResponder",
   "scrollResponderHandleStartShouldSetResponder",
   "scrollResponderHandleStartShouldSetResponderCapture",
   "scrollResponderHandleScrollBeginDrag", "scrollResponderHandleScrollEndDrag"}
  \cup KeyboardHandlers

\* C18: the outbound commands (scroll-to, scroll-to-end, zoom-to-rect,
\* flash-scroll-indicators), touch-move, responder-rejection,
\* termination-request, the should-set queries, drag-begin, drag-end and the
\* four keyboard handlers leave isTouching, lastMomentumScrollBeginTime,
\* lastMomentumScrollEndTime, observedScrollSinceBecomingResponder and
\* becameResponderWhileAnimating as they were.
C18_StateWrittenOnlyByDesignatedHandlers ==
  [][lastCall'.op \in StateReaders =>
       /\ isTouching' = isTouching
       /\ lastMomentumScrollBeginTime' = lastMomentumScrollBeginTime
       /\ lastMomentumScrollEndTime' = lastMomentumScrollEndTime
       /\ observedScrollSinceBecomingResponder' = observedScrollSinceBecomingResponder
       /\ becameResponderWhileAnimating' = becameResponderWhileAnimating]_vars

C18_Witness ==
  /\ lastCall.op = "scrollResponderFlashScrollIndicators"
  /\ isTouching
  /\ lastMomentumScrollBeginTime = 10
  /\ lastMomentumScrollEndTime = 20
  /\ observedScrollSinceBecomingResponder
  /\ becameResponderWhileAnimating

\* C19: zoom-to-rect fails fast: off iOS, or without a getNativeScrollRef
\* accessor, the call raises an invariant failure and dispatches no
\* zoomToRect command; with both present it dispatches exactly one zoomToRect
\* command and raises nothing, with animated = true unless the animated
\* option in effect (the rect's animated key when the rect has one, else the
\* deprecated second argument) is false.
C19_ZoomToFailsFast ==
  lastCall.op = "scrollResponderZoomTo" =>
    LET os == lastCall.args[1]
        hasNativeScrollRef == lastCall.args[2]
        rect == lastCall.args[3]
        animated == lastCall.args[4]
        explicitlyFalse == IF rect.has THEN rect.value = <<FALSE>>
                           ELSE animated = <<FALSE>>
    IN  IF os # "ios" \/ ~hasNativeScrollRef
        THEN /\ CountFx(effects, "throw") = 1
             /\ effects[Len(effects)].name = "throw"
             /\ CountFx(effects, "zoomToRect") = 0
        ELSE /\ CountFx(effects, "throw") = 0
             /\ CountFx(effects, "zoomToRect") = 1
             /\ effects[Len(effects)] = Fx("zoomToRect", <<~explicitlyFalse>>)

C19_Witness ==
  /\ lastCall = Call("scrollResponderZoomTo",
                     <<"ios", TRUE, [has |-> TRUE, value |-> <<TRUE>>], <<FALSE>>>>)
  /\ effects = <<Fx("zoomToRect", <<TRUE>>)>>
  /\ isTouching
  /\ momentum = "begun"

\* C20: with the pan responder enabled and isAnimating() false, the
\* capture-phase should-set-responder query returns true exactly when the
\* tap-dismiss policy is 'never' (or unset or false), a text input is focused
\* and the touch target is present and is not a text input; so it returns
\* false under 'always' and 'handled', with no input focused, and for a
\* target that is a text input.
C20_CaptureOnTapOutsideFocusedInput ==
  (/\ lastCall.op = "scrollResponderHandleStartShouldSetResponderCapture"
   /\ ~disableScrollViewPanResponder
   /\ ~scrollResponderIsAnimating)
  => LET target == lastCall.args[1]
     IN  /\ ret = Returns(/\ keyboardShouldPersistTaps \in {"never", "undefined", "false"}
                          /\ currentlyFocusedField # <<>>
                          /\ target # NoTarget
                          /\ target \notin TextInputs)
         /\ keyboardShouldPersistTaps \in {"always", "handled"} => ret = Returns(FALSE)
         /\ currentlyFocusedField = <<>> => ret = Returns(FALSE)
         /\ target \in TextInputs => ret = Returns(FALSE)

C20_Witness ==
  /\ lastCall = Call("scrollResponderHandleStartShouldSetResponderCapture", <<<<3>>>>)
  /\ keyboardShouldPersistTaps = "never"
  /\ ~disableScrollViewPanResponder
  /\ currentlyFocusedField = <<1>>
  /\ momentum = "ended"
  /\ lastMomentumScrollEndTime = 0
  /\ now = 20
  /\ ret = Returns(TRUE)

\* C21: the responder-grant handler resets
\* observedScrollSinceBecomingResponder to false, then calls the host's
\* onResponderGrant (which finds the flag reset and
\* becameResponderWhileAnimating not yet assigned), then sets
\* becameResponderWhileAnimating to isAnimating(); no other handler writes
\* becameResponderWhileAnimating and only a scroll event writes the other
\* flag, so a release that follows a grant reads, and leaves, the flags as
\* established at or after the most recent grant.
C21_GrantLatchesBothFlags ==
  [][/\ lastCall'.op = "scrollResponderHandleResponderGrant" =>
          /\ observedScrollSinceBecomingResponder' = FALSE
          /\ effects' = <<Fx("onResponderGrant", <<FALSE, becameResponderWhileAnimating>>)>>
          /\ becameResponderWhileAnimating' =
               (now - lastMomentumScrollEndTime < IS_ANIMATING_TOUCH_START_THRESHOLD_MS
                \/ lastMomentumScrollEndTime < lastMomentumScrollBeginTime)
     /\ becameResponderWhileAnimating' # becameResponderWhileAnimating =>
          lastCall'.op = "scrollResponderHandleResponderGrant"
     /\ observedScrollSinceBecomingResponder' # observedScrollSinceBecomingResponder =>
          lastCall'.op \in {"scrollResponderHandleResponderGrant",
                            "scrollResponderHandleScroll"}
     /\ lastCall'.op = "scrollResponderHandleResponderRelease" =>
          /\ scrolledSinceGrant # "nogrant" =>
               observedScrollSinceBecomingResponder' = (scrolledSinceGrant = "yes")
          /\ UNCHANGED <<becameResponderWhileAnimating,
                         observedScrollSinceBecomingResponder>>
          /\ (observedScrollSinceBecomingResponder \/ becameResponderWhileAnimating) =>
               CountFx(effects', "blurTextInput") = 0]_vars

\* A release that finds the flags of the second grant (taken motionless, no
\* scroll after it), the first grant having been taken during an animation.
C21_Witness ==
  /\ lastCall.op = "scrollResponderHandleResponderRelease"
  /\ momentum = "ended"
  /\ now - lastMomentumScrollEndTime >= IS_ANIMATING_TOUCH_START_THRESHOLD_MS
  /\ scrolledSinceGrant = "no"
  /\ ~becameResponderWhileAnimating
  /\ ~observedScrollSinceBecomingResponder
  /\ CountFx(effects, "blurTextInput") = 1

\* C22: the drag-end handler notifies FrameRateLogger.endScroll exactly when
\* isAnimating() is false and the event's velocity is absent or zero on both
\* axes; on either branch it leaves this.state unchanged and forwards the
\* event to the host's onScrollEndDrag, after the notification if there is one.
C22_DragEndNotifiesIffStill ==
  [][lastCall'.op = "scrollResponderHandleScrollEndDrag" =>
       LET velocity == lastCall'.args[1]
           still == velocity = <<>> \/ (velocity[1].x = 0 /\ velocity[1].y = 0)
           notifies == ~scrollResponderIsAnimating /\ still
       IN  /\ CountFx(effects', "FrameRateLogger.endScroll") = (IF notifies THEN 1 ELSE 0)
           /\ effects' = IF notifies
                         THEN <<Fx("FrameRateLogger.endScroll", <<>>),
                                Fx("onScrollEndDrag", <<>>)>>
                         ELSE <<Fx("onScrollEndDrag", <<>>)>>
           /\ UNCHANGED stateVars]_vars

C22_Witness ==
  /\ lastCall = Call("scrollResponderHandleScrollEndDrag", <<<<[x |-> 0, y |-> 2]>>>>)
  /\ effects = <<Fx("onScrollEndDrag", <<>>)>>
  /\ ~scrollResponderIsAnimating
  /\ momentum = "ended"
  /\ isTouching
  /\ observedScrollSinceBecomingResponder

\* C23: overlapping scroll-to-keyboard operations do not interfere: when a
\* second operation was started while the measurement of a first was in
\* flight, each of the two completions issues its scrollTo with the
\* additionalOffset and preventNegativeScrollOffset its own call supplied (so
\* both offsets are raised to 0 when both calls asked for it).
C23_OverlappingOperationsUseOwnParameters ==
  (/\ lastCall.op = "scrollResponderInputMeasureAndScrollToKeyboard"
   /\ CompletedMeasure.overlapped)
    => LET top == lastCall.args[1]
           height == lastCall.args[2]
           raw == top - keyboardScreenY + height + CompletedMeasure.offset
       IN  effects = <<Fx("scrollTo",
                          <<0, IF CompletedMeasure.prevent /\ raw < 0 THEN 0 ELSE raw,
                            TRUE>>)>>

\* ------------------------------------------------- acquisition by animation
\* The capture query handled last returned true, and not for a tap outside a
\* focused input, so on account of isAnimating(), some momentum event having
\* been handled; nothing but the clock has moved since.
CaptureWonByAnimating ==
  /\ lastCall.op = "scrollResponderHandleStartShouldSetResponderCapture"
  /\ ret = Returns(TRUE)
  /\ momentum # "none"
  /\ ~(/\ keyboardNeverPersistTaps
       /\ currentlyFocusedField # <<>>
       /\ lastCall.args[1] # NoTarget
       /\ ~isTextInput(lastCall.args[1]))

\* performanceNow() advances between the capture query and the grant.
TimePassesAfterCapture ==
  /\ CaptureWonByAnimating
  /\ \E d \in TickSteps : now + d <= MaxClock /\ now' = now + d
  /\ UNCHANGED <<stateVars, keyboardVars, propVars, currentlyFocusedField,
                 lastCall, ret, effects, historyVars, lifecycleVars>>

\* The grant for the touch whose capture query was won by animating.
GrantAfterCapture ==
  CaptureWonByAnimating /\ scrollResponderHandleResponderGrant

\* A release of the responder taken by such a grant.
ReleaseAfterGrant ==
  scrolledSinceGrant # "nogrant" /\ scrollResponderHandleResponderRelease

NextAcquire ==
  \/ Tick
  \/ FocusChange
  \/ scrollResponderHandleMomentumScrollBegin
  \/ scrollResponderHandleMomentumScrollEnd
  \/ scrollResponderHandleScroll
  \/ scrollResponderHandleStartShouldSetResponderCapture
  \/ TimePassesAfterCapture
  \/ GrantAfterCapture
  \/ ReleaseAfterGrant

SpecAcquire == InitKeyboard /\ [][NextAcquire]_vars

\* C24 as stated: when the capture query returned true on account of
\* isAnimating() and the grant for that touch follows, the clock possibly
\* advancing in between and no momentum event, the grant latches
\* becameResponderWhileAnimating true, and the release that follows neither
\* blurs the focused input nor notifies onScrollResponderKeyboardDismissed.
\* Stated for a surface whose momentum has ended, where the capture query
\* was won inside the 16 ms after the momentum-end.
C24_WonByAnimatingLatchedTrue ==
  /\ (lastCall.op = "scrollResponderHandleResponderGrant" /\ momentum = "ended") =>
       becameResponderWhileAnimating
  /\ (lastCall.op = "scrollResponderHandleResponderRelease" /\ momentum = "ended") =>
       /\ CountFx(effects, "blurTextInput") = 0
       /\ CountFx(effects, "onScrollResponderKeyboardDismissed") = 0

\* C24 amended: such a grant latches becameResponderWhileAnimating true
\* exactly when isAnimating() is still true as the grant is handled (less
\* than 16 ms since the recorded momentum-end, or that end recorded before
\* the momentum-begin), and false when the clock has reached 16 ms after a
\* momentum-end that no momentum-begin followed; a release that
\* finds the latch true neither blurs the focused input nor notifies
\* onScrollResponderKeyboardDismissed.
C24_LatchedTrueIfStillAnimatingAtGrant ==
  /\ lastCall.op = "scrollResponderHandleResponderGrant" =>
       /\ becameResponderWhileAnimating =
            (\/ now - lastMomentumScrollEndTime < IS_ANIMATING_TOUCH_START_THRESHOLD_MS
             \/ lastMomentumScrollEndTime < lastMomentumScrollBeginTime)
       /\ (momentum = "ended"
           /\ now - lastMomentumScrollEndTime >= IS_ANIMATING_TOUCH_START_THRESHOLD_MS)
            => ~becameResponderWhileAnimating
  /\ (lastCall.op = "scrollResponderHandleResponderRelease"
      /\ becameResponderWhileAnimating) =>
       /\ CountFx(effects, "blurTextInput") = 0
       /\ CountFx(effects, "onScrollResponderKeyboardDismissed") = 0

\* The grant came 10 ms after the momentum-end and the capture query; the
\* release, later, of a touch outside the focused input does not blur it.
C24_Witness ==
  /\ lastCall = Call("scrollResponderHandleResponderRelease", <<<<2>>>>)
  /\ becameResponderWhileAnimating
  /\ ~observedScrollSinceBecomingResponder
  /\ currentlyFocusedField = <<1>>
  /\ momentum = "ended"
  /\ lastMomentumScrollEndTime = 10
  /\ now = 26
  /\ effects = <<Fx("onResponderRelease", <<>>)>>

\* No momentum event was ever handled: both timestamps are the initial 0.
FreshlyMounted ==
  /\ momentum = "none"
  /\ lastMomentumScrollBeginTime = 0
  /\ lastMomentumScrollEndTime = 0

\* C25 as stated: on a surface that has handled no momentum event,
\* isAnimating() is false at every clock reading now >= 0, so a capture-phase
\* query on it is never answered true on account of animation and a grant
\* latches becameResponderWhileAnimating = false.
C25_FreshSurfaceNeverAnimating ==
  (FreshlyMounted /\ now >= 0) =>
    /\ lastCall.op \in {"scrollResponderHandleStartShouldSetResponderCapture",
                        "scrollResponderHandleResponderGrant"} =>
         ~scrollResponderIsAnimating
    /\ lastCall.op = "scrollResponderHandleStartShouldSetResponderCapture" =>
         ret = Returns(/\ ~disableScrollViewPanResponder
                       /\ keyboardShouldPersistTaps \in {"never", "undefined", "false"}
                       /\ currentlyFocusedField # <<>>
                       /\ lastCall.args[1] # NoTarget
                       /\ lastCall.args[1] \notin TextInputs)
    /\ lastCall.op = "scrollResponderHandleResponderGrant" =>
         ~becameResponderWhileAnimating

\* C25 amended: on a surface that has handled no momentum event, isAnimating()
\* is false at every clock reading now >= 16 and true at the readings below
\* 16 ms (the initial lastMomentumScrollEndTime 0 counts as a momentum-end at
\* time 0); from 16 ms on a capture-phase query is never answered true on
\* account of animation and a grant latches becameResponderWhileAnimating =
\* false.
C25_FreshSurfaceNotAnimatingFrom16ms ==
  FreshlyMounted =>
    /\ scrollResponderIsAnimating = (now < IS_ANIMATING_TOUCH_START_THRESHOLD_MS)
    /\ now >= IS_ANIMATING_TOUCH_START_THRESHOLD_MS =>
         /\ lastCall.op = "scrollResponderHandleStartShouldSetResponderCapture" =>
              ret = Returns(/\ ~disableScrollViewPanResponder
                            /\ keyboardShouldPersistTaps \in {"never", "undefined", "false"}
                            /\ currentlyFocusedField # <<>>
                            /\ lastCall.args[1] # NoTarget
                            /\ lastCall.args[1] \notin TextInputs)
         /\ lastCall.op = "scrollResponderHandleResponderGrant" =>
              ~becameResponderWhileAnimating

C25_Witness ==
  /\ FreshlyMounted
  /\ now = 16
  /\ lastCall.op = "scrollResponderHandleResponderGrant"
  /\ ~becameResponderWhileAnimating
  /\ isTouching
  /\ currentlyFocusedField = <<1>>
  /\ keyboardWillOpenTo = <<160>>

====
